---- MODULE Spec2Model ----
(***************************************************************************)
(* State-machine model of the FoodSwing backend (src/server.js, lines      *)
(* 1-382): the three collections of the document store, the clock, the     *)
(* session tokens handed to clients, and the request handlers.  Every      *)
(* `await` of a handler is a step boundary: the store operation and the    *)
(* synchronous continuation that follows it form one action.  A request    *)
(* that has been answered stays in its context, with the response, until   *)
(* the context is released; nothing else happens at that instant.          *)
(*                                                                         *)
(* Time is counted in days.  Strings that are only compared are TLA+       *)
(* strings; an email is a sequence of characters, because the contact      *)
(* form's pattern is matched character by character.  A missing or empty   *)
(* body field is the empty string / empty sequence (both falsy in JS).     *)
(***************************************************************************)
EXTENDS Integers, Sequences, FiniteSets, TLC

VARIABLES users, moods, contacts, now, issued, budget, nextOid, req, signedUp,
          authToken, currentUser, localStorage, calls, navbar

\* The page: its two globals, the 'foodswing_token' item of localStorage, its
\* API calls in flight and whether the navbar (with the logout button) shows.
client == <<authToken, currentUser, localStorage, calls, navbar>>

vars == <<users, moods, contacts, now, issued, budget, nextOid, req, signedUp,
          client>>

\* JavaScript's null
Null == [null |-> TRUE]

\* No page is open.
NoPage ==
    /\ authToken = Null /\ currentUser = Null /\ localStorage = Null
    /\ calls = {} /\ navbar = FALSE

(***************************************************************************)
(* Bounds of the model.                                                    *)
(***************************************************************************)
\* Requests that arrive in a run, from an empty and from a populated database.
MaxReq == 3
MaxReqPopulated == 2
\* The last day of a run.
MaxClock == 8

(***************************************************************************)
(* Program constants.                                                      *)
(***************************************************************************)
TokenTTL == 7
HistoryLimit == 50
BcryptCost == 10

JWT_SECRET == "your-secret-key-change-in-production"

\* The request contexts the runtime can have in flight at the same time.
Slots == {"c1", "c2"}

(***************************************************************************)
(* Inputs.                                                                 *)
(***************************************************************************)
AnnEmail == <<"a", "@", "x", ".", "c">>
BobEmail == <<"b", "@", "x", ".", "c">>
NoAtEmail == <<"a", "x", ".", "c">>
NoDotEmail == <<"a", "@", "x">>

Names == {"", "Ann"}
Emails == {<<>>, AnnEmail, BobEmail}
Passwords == {"", "secret1", "wrong"}
Salts == {"s1", "s2"}
MoodInputs == {"", "happy", "pizza"}
ContactEmails == {<<>>, AnnEmail, NoAtEmail, NoDotEmail}
Messages == {"", "hi"}

(***************************************************************************)
(* JS truthiness of a body field: undefined and the empty string are       *)
(* falsy.                                                                  *)
(***************************************************************************)
Falsy(v) == v = ""

FalsySeq(v) == v = <<>>

(***************************************************************************)
(* bcrypt, symbolically: a hash is a term over the cost, the salt and the  *)
(* password; it can be compared but not opened.                            *)
(***************************************************************************)
BcryptHash(password, cost, salt) ==
    [alg |-> "bcrypt", cost |-> cost, salt |-> salt, of |-> password]

BcryptCompare(password, hash) ==
    hash = BcryptHash(password, hash.cost, hash.salt)

(***************************************************************************)
(* jsonwebtoken, symbolically: a token is its payload with the signature   *)
(* as a term over the key and the signed payload.                          *)
(***************************************************************************)
TokenPayloadBadId(user) ==
    [id |-> 0 - 1, email |-> user.email, name |-> user.name]

TokenPayload(user) ==
    [id |-> user.id, email |-> user.email, name |-> user.name]

JwtSign(payload, secret, t) ==
    [id |-> payload.id, email |-> payload.email, name |-> payload.name,
     iat |-> t, exp |-> t + TokenTTL,
     sig |-> [key |-> secret,
              over |-> [id |-> payload.id, email |-> payload.email,
                        name |-> payload.name, iat |-> t, exp |-> t + TokenTTL]]]

JwtClaims(tok) ==
    [id |-> tok.id, email |-> tok.email, name |-> tok.name,
     iat |-> tok.iat, exp |-> tok.exp]

JwtSignatureOk(tok, secret) ==
    tok.sig = [key |-> secret, over |-> JwtClaims(tok)]

JwtNotExpiredIgnored(tok, t) == TRUE

JwtNotExpired(tok, t) == t < tok.exp

JwtVerifyOk(tok, secret, t) ==
    JwtSignatureOk(tok, secret) /\ JwtNotExpired(tok, t)

(***************************************************************************)
(* The users collection.                                                   *)
(***************************************************************************)
UsersByEmail(email) == {i \in 1..Len(users) : users[i].email = email}

FindOneUser(email) ==
    IF UsersByEmail(email) = {} THEN [found |-> FALSE]
    ELSE [found |-> TRUE,
          user |-> users[CHOOSE i \in UsersByEmail(email) :
                           \A j \in UsersByEmail(email) : i <= j]]

UniqueIndexOff(email) == TRUE

\* unique: true on userSchema.email
UniqueIndexAllows(email) == UsersByEmail(email) = {}

(***************************************************************************)
(* Requests.                                                               *)
(***************************************************************************)
IdleReq == [pc |-> "idle", route |-> "none"]

\* No response is being delivered.
Quiet == \A s \in Slots : req[s].pc # "done"

\* The runtime takes the first free context for an incoming request.
Accepts(s) ==
    /\ Quiet
    /\ budget > 0
    /\ req[s].pc = "idle"
    /\ \A o \in Slots : req[o].pc = "idle" => (s = "c1" \/ o # "c1")

Running(s, route, pc) ==
    Quiet /\ req[s].route = route /\ req[s].pc = pc

Fail(status, message) ==
    [status |-> status, success |-> FALSE, message |-> message]

Done(r, res) == [r EXCEPT !.pc = "done", !.res = res]

NoRes == [status |-> 0]

\* The response has been written; the request's context is released.
Close(s) ==
    /\ req[s].pc = "done"
    /\ req' = [req EXCEPT ![s] = IdleReq]
    /\ UNCHANGED <<users, moods, contacts, now, issued, budget, nextOid, signedUp, client>>

(***************************************************************************)
(* POST /api/auth/signup                                                   *)
(***************************************************************************)
SignupStart(s, name, email, password) ==
    /\ Accepts(s)
    /\ budget' = budget - 1
    /\ LET r == [pc |-> "findOne", route |-> "signup",
                 body |-> [name |-> name, email |-> email,
                           password |-> password],
                 res |-> NoRes]
       IN  req' = [req EXCEPT ![s] =
                IF Falsy(name) \/ FalsySeq(email) \/ Falsy(password)
                THEN Done(r, Fail(400, "Please provide all required fields"))
                ELSE r]
    /\ UNCHANGED <<users, moods, contacts, now, issued, nextOid, signedUp, client>>

SignupFindOne(s) ==
    /\ Running(s, "signup", "findOne")
    /\ req' = [req EXCEPT ![s] =
            IF FindOneUser(req[s].body.email).found
            THEN Done(req[s], Fail(400, "Email already registered"))
            ELSE [req[s] EXCEPT !.pc = "hash"]]
    /\ UNCHANGED <<users, moods, contacts, now, issued, budget, nextOid, signedUp, client>>

\* bcrypt.hash resolves; new User(...) is built, with a fresh _id, and
\* user.save() is issued.
SignupHash(s) ==
    /\ Running(s, "signup", "hash")
    /\ \E salt \in Salts :
         req' = [req EXCEPT ![s] =
            [pc |-> "save", route |-> "signup", body |-> req[s].body,
             res |-> NoRes,
             user |-> [id |-> nextOid, name |-> req[s].body.name,
                       email |-> req[s].body.email,
                       password |-> BcryptHash(req[s].body.password,
                                               BcryptCost, salt)]]]
    /\ nextOid' = nextOid + 1
    /\ UNCHANGED <<users, moods, contacts, now, issued, budget, signedUp, client>>

\* The store applies the insert; a duplicate key makes save() reject, which
\* the handler's catch turns into the 500 response.
SignupSave(s) ==
    /\ Running(s, "signup", "save")
    /\ IF UniqueIndexAllows(req[s].user.email)
       THEN /\ users' = Append(users, req[s].user)
            /\ req' = [req EXCEPT ![s] = [req[s] EXCEPT !.pc = "sign"]]
       ELSE /\ users' = users
            /\ req' = [req EXCEPT ![s] =
                   Done(req[s], Fail(500, "Server error. Please try again."))]
    /\ UNCHANGED <<moods, contacts, now, issued, budget, nextOid, signedUp, client>>

AuthOkNoId(status, message, token, user) ==
    [status |-> status, success |-> TRUE, message |-> message,
     token |-> token,
     user |-> [id |-> 0, name |-> user.name, email |-> user.email]]

AuthOkWholeUser(status, message, token, user) ==
    [status |-> status, success |-> TRUE, message |-> message,
     token |-> token, user |-> user]

AuthOk(status, message, token, user) ==
    [status |-> status, success |-> TRUE, message |-> message,
     token |-> token,
     user |-> [id |-> user.id, name |-> user.name, email |-> user.email]]

SignupRespond(s) ==
    /\ Running(s, "signup", "sign")
    /\ LET token == JwtSign(TokenPayload(req[s].user), JWT_SECRET, now)
       IN  /\ issued' = issued \cup {token}
           /\ req' = [req EXCEPT ![s] =
                  Done(req[s], AuthOk(201, "Account created successfully!",
                                      token, req[s].user))]
    /\ signedUp' = Append(signedUp, req[s].user.email)
    /\ UNCHANGED <<users, moods, contacts, now, budget, nextOid, client>>

(***************************************************************************)
(* POST /api/auth/login                                                    *)
(***************************************************************************)
UnknownEmailResponse == Fail(400, "Invalid email or password")

WrongPasswordResponseLeaky == Fail(400, "Wrong password")

WrongPasswordResponse == Fail(400, "Invalid email or password")

LoginStart(s, email, password) ==
    /\ Accepts(s)
    /\ budget' = budget - 1
    /\ LET r == [pc |-> "findOne", route |-> "login",
                 body |-> [email |-> email, password |-> password],
                 res |-> NoRes]
       IN  req' = [req EXCEPT ![s] =
                IF FalsySeq(email) \/ Falsy(password)
                THEN Done(r, Fail(400, "Please provide email and password"))
                ELSE r]
    /\ UNCHANGED <<users, moods, contacts, now, issued, nextOid, signedUp, client>>

LoginFindOne(s) ==
    /\ Running(s, "login", "findOne")
    /\ LET found == FindOneUser(req[s].body.email)
       IN  req' = [req EXCEPT ![s] =
                IF ~found.found
                THEN Done(req[s], UnknownEmailResponse)
                ELSE [pc |-> "compare", route |-> "login",
                      body |-> req[s].body, res |-> NoRes,
                      user |-> found.user]]
    /\ UNCHANGED <<users, moods, contacts, now, issued, budget, nextOid, signedUp, client>>

LoginCompare(s) ==
    /\ Running(s, "login", "compare")
    /\ IF ~BcryptCompare(req[s].body.password, req[s].user.password)
       THEN /\ req' = [req EXCEPT ![s] = Done(req[s], WrongPasswordResponse)]
            /\ issued' = issued
       ELSE LET token == JwtSign(TokenPayload(req[s].user), JWT_SECRET, now)
            IN  /\ issued' = issued \cup {token}
                /\ req' = [req EXCEPT ![s] =
                       Done(req[s], AuthOk(200, "Welcome back!", token,
                                           req[s].user))]
    /\ UNCHANGED <<users, moods, contacts, now, budget, nextOid, signedUp, client>>

(***************************************************************************)
(* The Authorization header: a sequence of characters, of which the model  *)
(* keeps the spaces apart and the rest in chunks (a plain word, or the     *)
(* compact text of a token).                                               *)
(***************************************************************************)
SP == [k |-> "sp"]

Word(w) == [k |-> "w", w |-> w]

Jwt(tok) == [k |-> "jwt", tok |-> tok]

NoHeader == [present |-> FALSE]

Header(text) == [present |-> TRUE, text |-> text]

\* String.prototype.split(' ')
RECURSIVE Split(_)
Split(text) ==
    IF \A i \in 1..Len(text) : text[i] # SP THEN <<text>>
    ELSE LET i == CHOOSE k \in 1..Len(text) :
                    text[k] = SP /\ \A j \in 1..(k - 1) : text[j] # SP
         IN  <<SubSeq(text, 1, i - 1)>> \o Split(SubSeq(text, i + 1, Len(text)))

\* authHeader && authHeader.split(' ')[1]; the empty sequence stands for
\* every falsy outcome (undefined, '').
HeaderToken(header) ==
    IF ~header.present \/ header.text = <<>> THEN <<>>
    ELSE IF Len(Split(header.text)) < 2 THEN <<>>
    ELSE Split(header.text)[2]

\* jwt.verify(token, JWT_SECRET, callback): err for a text that is no
\* token, a bad signature or an expired token.
JwtVerify(text, secret, t) ==
    IF Len(text) = 1 /\ text[1].k = "jwt" /\ JwtVerifyOk(text[1].tok, secret, t)
    THEN [err |-> FALSE, user |-> JwtClaims(text[1].tok)]
    ELSE [err |-> TRUE]

AuthenticateTokenLax(header, t) ==
    IF HeaderToken(header) = <<>>
    THEN [next |-> FALSE, res |-> Fail(401, "Access token required")]
    ELSE IF Len(HeaderToken(header)) = 1 /\ HeaderToken(header)[1].k = "jwt"
    THEN [next |-> TRUE, user |-> JwtClaims(HeaderToken(header)[1].tok)]
    ELSE [next |-> FALSE, res |-> Fail(403, "Invalid or expired token")]

AuthenticateToken(header, t) ==
    IF HeaderToken(header) = <<>>
    THEN [next |-> FALSE, res |-> Fail(401, "Access token required")]
    ELSE IF JwtVerify(HeaderToken(header), JWT_SECRET, t).err
    THEN [next |-> FALSE, res |-> Fail(403, "Invalid or expired token")]
    ELSE [next |-> TRUE, user |-> JwtVerify(HeaderToken(header), JWT_SECRET, t).user]

(***************************************************************************)
(* What a client can put in the header: the tokens it was given, a token   *)
(* with its expiry pushed back (the signature no longer covers it), a      *)
(* token signed with another key, and text that is no token.               *)
(***************************************************************************)
Tampered(tok) == [tok EXCEPT !.exp = tok.exp + TokenTTL]

Forged(tok) == JwtSign(TokenPayload(tok), "guessed-key", tok.iat + TokenTTL)

Credentials ==
    {<<Word("junk")>>}
      \cup {<<Jwt(tok)>> : tok \in issued}
      \cup {<<Jwt(Tampered(tok))>> : tok \in issued}
      \cup {<<Jwt(Forged(tok))>> : tok \in issued}

Schemes == {"Bearer", "Basic"}

Headers ==
    {NoHeader, Header(<<Word("Bearer")>>), Header(<<Word("Bearer"), SP>>)}
      \cup {Header(<<Word(sch), SP>> \o c) : sch \in Schemes, c \in Credentials}
      \cup {Header(<<Word("Bearer"), SP, SP>> \o c) : c \in Credentials}

Protected(route, header, body) ==
    [pc |-> "auth", route |-> route, header |-> header, at |-> now,
     body |-> body, res |-> NoRes]

(***************************************************************************)
(* GET /api/auth/verify                                                    *)
(***************************************************************************)
VerifyRequest(s, header) ==
    /\ Accepts(s)
    /\ budget' = budget - 1
    /\ LET r == Protected("verify", header, [none |-> TRUE])
           auth == AuthenticateToken(header, now)
       IN  req' = [req EXCEPT ![s] =
                IF ~auth.next THEN Done(r, auth.res)
                ELSE Done(r, [status |-> 200, success |-> TRUE,
                              user |-> auth.user])]
    /\ UNCHANGED <<users, moods, contacts, now, issued, nextOid, signedUp, client>>

(***************************************************************************)
(* POST /api/mood/select                                                   *)
(***************************************************************************)
MoodSelectStart(s, header, mood) ==
    /\ Accepts(s)
    /\ budget' = budget - 1
    /\ LET r == Protected("moodSelect", header, [mood |-> mood])
           auth == AuthenticateToken(header, now)
       IN  req' = [req EXCEPT ![s] =
                IF ~auth.next THEN Done(r, auth.res)
                ELSE [pc |-> "save", route |-> "moodSelect",
                      header |-> header, at |-> now, body |-> r.body,
                      res |-> NoRes, user |-> auth.user,
                      doc |-> [userId |-> auth.user.id, mood |-> mood,
                               timestamp |-> now]]]
    /\ UNCHANGED <<users, moods, contacts, now, issued, nextOid, signedUp, client>>

\* mood: { type: String, required: true }: the empty string and undefined
\* fail the document's validation, before anything is written.
MoodValidation(doc) == doc.mood # ""

MoodSelectSave(s) ==
    /\ Running(s, "moodSelect", "save")
    /\ IF MoodValidation(req[s].doc)
       THEN /\ moods' = Append(moods, req[s].doc)
            /\ req' = [req EXCEPT ![s] =
                   Done(req[s], [status |-> 200, success |-> TRUE,
                                 message |-> "Mood tracked successfully"])]
       ELSE /\ moods' = moods
            /\ req' = [req EXCEPT ![s] =
                   Done(req[s], Fail(500, "Failed to track mood"))]
    /\ UNCHANGED <<users, contacts, now, issued, budget, nextOid, signedUp, client>>

(***************************************************************************)
(* GET /api/mood/history                                                   *)
(***************************************************************************)
Reverse(q) == [i \in 1..Len(q) |-> q[Len(q) + 1 - i]]

Take(q, n) == SubSeq(q, 1, IF Len(q) < n THEN Len(q) ELSE n)

\* find({ userId })
SelectUser(q, userId) == SelectSeq(q, LAMBDA m : m.userId = userId)

\* The sort works on positions: k[i] is the sort key of q[i].  A position
\* goes behind the positions whose key is not smaller: the sort is stable.
RECURSIVE InsertDesc(_, _, _)
InsertDesc(order, i, k) ==
    IF order = <<>> THEN <<i>>
    ELSE IF k[order[1]] >= k[i] THEN <<order[1]>> \o InsertDesc(Tail(order), i, k)
    ELSE <<i>> \o order

RECURSIVE OrderDesc(_, _)
OrderDesc(n, k) ==
    IF n = 0 THEN <<>> ELSE InsertDesc(OrderDesc(n - 1, k), n, k)

\* sort({ key: -1 })
SortDesc(q, k) ==
    LET order == OrderDesc(Len(q), k)
    IN  [j \in 1..Len(q) |-> q[order[j]]]

MoodTimestamps(q) == [i \in 1..Len(q) |-> q[i].timestamp]

ContactCreatedAts(q) == [i \in 1..Len(q) |-> q[i].createdAt]

MoodHistoryQueryUnsorted(q, userId) == Take(SelectUser(q, userId), HistoryLimit)

\* find({ userId }).sort({ timestamp: -1 }).limit(50) over the entries in
\* the order q
MoodHistoryQuery(q, userId) ==
    LET mine == SelectUser(q, userId)
    IN  Take(SortDesc(mine, MoodTimestamps(mine)), HistoryLimit)

MoodHistoryStart(s, header) ==
    /\ Accepts(s)
    /\ budget' = budget - 1
    /\ LET r == Protected("moodHistory", header, [none |-> TRUE])
           auth == AuthenticateToken(header, now)
       IN  req' = [req EXCEPT ![s] =
                IF ~auth.next THEN Done(r, auth.res)
                ELSE [pc |-> "find", route |-> "moodHistory",
                      header |-> header, at |-> now, body |-> r.body,
                      res |-> NoRes, user |-> auth.user]]
    /\ UNCHANGED <<users, moods, contacts, now, issued, nextOid, signedUp, client>>

\* Entries with equal timestamps come back in an order the store does not
\* fix: the scan order is either direction of the collection.
MoodHistoryFind(s) ==
    /\ Running(s, "moodHistory", "find")
    /\ \E scan \in {moods, Reverse(moods)} :
         req' = [req EXCEPT ![s] =
            Done(req[s], [status |-> 200, success |-> TRUE,
                          history |-> MoodHistoryQuery(scan, req[s].user.id)])]
    /\ UNCHANGED <<users, moods, contacts, now, issued, budget, nextOid, signedUp, client>>

(***************************************************************************)
(* POST /api/contact                                                       *)
(***************************************************************************)
ContactStart(s, name, email, message) ==
    /\ Accepts(s)
    /\ budget' = budget - 1
    /\ LET r == [pc |-> "save", route |-> "contact",
                 body |-> [name |-> name, email |-> email,
                           message |-> message],
                 res |-> NoRes]
       IN  req' = [req EXCEPT ![s] =
                IF Falsy(name) \/ FalsySeq(email) \/ Falsy(message)
                THEN Done(r, Fail(400, "Please provide all fields"))
                ELSE [pc |-> "save", route |-> "contact", body |-> r.body,
                      res |-> NoRes,
                      doc |-> [name |-> name, email |-> email,
                               message |-> message, createdAt |-> now]]]
    /\ UNCHANGED <<users, moods, contacts, now, issued, nextOid, signedUp, client>>

ContactSaveOverwrite(s) ==
    /\ Running(s, "contact", "save")
    /\ contacts' = <<req[s].doc>>
    /\ req' = [req EXCEPT ![s] =
           Done(req[s], [status |-> 200, success |-> TRUE,
                         message |-> "Thank you for your message!"])]
    /\ UNCHANGED <<users, moods, now, issued, budget, nextOid, signedUp, client>>

ContactSave(s) ==
    /\ Running(s, "contact", "save")
    /\ contacts' = Append(contacts, req[s].doc)
    /\ req' = [req EXCEPT ![s] =
           Done(req[s], [status |-> 200, success |-> TRUE,
                         message |-> "Thank you for your message!"])]
    /\ UNCHANGED <<users, moods, now, issued, budget, nextOid, signedUp, client>>

(***************************************************************************)
(* The pattern of the contact form, /^[^\s@]+@[^\s@]+\.[^\s@]+$/: only the *)
(* page's submitContact applies it, before it calls the API.               *)
(***************************************************************************)
Plain(e, a, b) == a <= b /\ \A k \in a..b : e[k] \notin {" ", "@"}

EmailRegexTest(e) ==
    \E i \in 1..Len(e), j \in 1..Len(e) :
        /\ i < j
        /\ e[i] = "@" /\ e[j] = "."
        /\ Plain(e, 1, i - 1) /\ Plain(e, i + 1, j - 1) /\ Plain(e, j + 1, Len(e))

(***************************************************************************)
(* GET /api/admin/contacts                                                 *)
(***************************************************************************)
AdminContactsStart(s, header) ==
    /\ Accepts(s)
    /\ budget' = budget - 1
    /\ LET r == Protected("adminContacts", header, [none |-> TRUE])
           auth == AuthenticateToken(header, now)
       IN  req' = [req EXCEPT ![s] =
                IF ~auth.next THEN Done(r, auth.res)
                ELSE [pc |-> "find", route |-> "adminContacts",
                      header |-> header, at |-> now, body |-> r.body,
                      res |-> NoRes, user |-> auth.user]]
    /\ UNCHANGED <<users, moods, contacts, now, issued, nextOid, signedUp, client>>

AdminContactsFind(s) ==
    /\ Running(s, "adminContacts", "find")
    /\ \E scan \in {contacts, Reverse(contacts)} :
         req' = [req EXCEPT ![s] =
            Done(req[s], [status |-> 200, success |-> TRUE,
                          contacts |-> SortDesc(scan, ContactCreatedAts(scan))])]
    /\ UNCHANGED <<users, moods, contacts, now, issued, budget, nextOid, signedUp, client>>

(***************************************************************************)
(* GET /api/admin/analytics: four queries, one after the other.            *)
(***************************************************************************)
AnalyticsStart(s, header) ==
    /\ Accepts(s)
    /\ budget' = budget - 1
    /\ LET r == Protected("analytics", header, [none |-> TRUE])
           auth == AuthenticateToken(header, now)
       IN  req' = [req EXCEPT ![s] =
                IF ~auth.next THEN Done(r, auth.res)
                ELSE [pc |-> "countUsers", route |-> "analytics",
                      header |-> header, at |-> now, body |-> r.body,
                      res |-> NoRes, user |-> auth.user,
                      totalUsers |-> 0, totalMoodSelections |-> 0,
                      totalContacts |-> 0]]
    /\ UNCHANGED <<users, moods, contacts, now, issued, nextOid, signedUp, client>>

AnalyticsCountUsers(s) ==
    /\ Running(s, "analytics", "countUsers")
    /\ req' = [req EXCEPT ![s] = [req[s] EXCEPT !.pc = "countMoods",
                                                !.totalUsers = Len(users)]]
    /\ UNCHANGED <<users, moods, contacts, now, issued, budget, nextOid, signedUp, client>>

AnalyticsCountMoods(s) ==
    /\ Running(s, "analytics", "countMoods")
    /\ req' = [req EXCEPT ![s] = [req[s] EXCEPT !.pc = "countContacts",
                                       !.totalMoodSelections = Len(moods)]]
    /\ UNCHANGED <<users, moods, contacts, now, issued, budget, nextOid, signedUp, client>>

AnalyticsCountContacts(s) ==
    /\ Running(s, "analytics", "countContacts")
    /\ req' = [req EXCEPT ![s] = [req[s] EXCEPT !.pc = "aggregate",
                                       !.totalContacts = Len(contacts)]]
    /\ UNCHANGED <<users, moods, contacts, now, issued, budget, nextOid, signedUp, client>>

\* $group by mood with $sum: 1
MoodStats(q) ==
    {[_id |-> mood,
      count |-> Cardinality({i \in 1..Len(q) : q[i].mood = mood})] :
        mood \in {q[i].mood : i \in 1..Len(q)}}

AnalyticsAggregate(s) ==
    /\ Running(s, "analytics", "aggregate")
    /\ req' = [req EXCEPT ![s] =
           Done(req[s], [status |-> 200, success |-> TRUE,
                         analytics |->
                            [totalUsers |-> req[s].totalUsers,
                             totalMoodSelections |-> req[s].totalMoodSelections,
                             totalContacts |-> req[s].totalContacts,
                             moodStats |-> MoodStats(moods)]])]
    /\ UNCHANGED <<users, moods, contacts, now, issued, budget, nextOid, signedUp, client>>

(***************************************************************************)
(* GET /api/health                                                         *)
(***************************************************************************)
HealthRequest(s) ==
    /\ Accepts(s)
    /\ budget' = budget - 1
    /\ req' = [req EXCEPT ![s] =
           [pc |-> "done", route |-> "health",
            res |-> [status |-> 200, success |-> TRUE,
                     message |-> "FoodSwing API is running!",
                     timestamp |-> now]]]
    /\ UNCHANGED <<users, moods, contacts, now, issued, nextOid, signedUp, client>>

(***************************************************************************)
(* The clock.                                                              *)
(***************************************************************************)
Tick ==
    /\ Quiet
    /\ now < MaxClock
    /\ now' = now + 1
    /\ UNCHANGED <<users, moods, contacts, issued, budget, nextOid, req, signedUp, client>>

(***************************************************************************)
(* The system.  Init is the server started on an empty database.           *)
(***************************************************************************)
Init ==
    /\ users = <<>>
    /\ moods = <<>>
    /\ contacts = <<>>
    /\ now = 0
    /\ issued = {}
    /\ budget = MaxReq
    /\ nextOid = 1
    /\ req = [s \in Slots |-> IdleReq]
    /\ signedUp = <<>>
    /\ NoPage

SignupSteps ==
    \/ \E s \in Slots, name \in Names, email \in Emails, password \in Passwords :
         SignupStart(s, name, email, password)
    \/ \E s \in Slots : SignupFindOne(s)
    \/ \E s \in Slots : SignupHash(s)
    \/ \E s \in Slots : SignupSave(s)
    \/ \E s \in Slots : SignupRespond(s)

LoginSteps ==
    \/ \E s \in Slots, email \in Emails, password \in Passwords :
         LoginStart(s, email, password)
    \/ \E s \in Slots : LoginFindOne(s)
    \/ \E s \in Slots : LoginCompare(s)

VerifySteps == \E s \in Slots, header \in Headers : VerifyRequest(s, header)

MoodSteps ==
    \/ \E s \in Slots, header \in Headers, mood \in MoodInputs :
         MoodSelectStart(s, header, mood)
    \/ \E s \in Slots : MoodSelectSave(s)
    \/ \E s \in Slots, header \in Headers : MoodHistoryStart(s, header)
    \/ \E s \in Slots : MoodHistoryFind(s)

ContactSteps ==
    \/ \E s \in Slots, name \in Names, email \in ContactEmails,
          message \in Messages : ContactStart(s, name, email, message)
    \/ \E s \in Slots : ContactSave(s)

AdminSteps ==
    \/ \E s \in Slots, header \in Headers : AdminContactsStart(s, header)
    \/ \E s \in Slots : AdminContactsFind(s)
    \/ \E s \in Slots, header \in Headers : AnalyticsStart(s, header)
    \/ \E s \in Slots : AnalyticsCountUsers(s)
    \/ \E s \in Slots : AnalyticsCountMoods(s)
    \/ \E s \in Slots : AnalyticsCountContacts(s)
    \/ \E s \in Slots : AnalyticsAggregate(s)

HealthSteps == \E s \in Slots : HealthRequest(s)

CloseSteps == \E s \in Slots : Close(s)

Next ==
    \/ SignupSteps
    \/ LoginSteps
    \/ VerifySteps
    \/ MoodSteps
    \/ ContactSteps
    \/ AdminSteps
    \/ HealthSteps
    \/ CloseSteps
    \/ Tick

Spec == Init /\ [][Next]_vars

(***************************************************************************)
(* The database some days into service: Ann signed up on day 0 and logged  *)
(* in again on day 5, Bob signed up on day 6; Ann has picked a mood as     *)
(* many times as one page of history holds, Bob once; one contact message  *)
(* has come in.  Today is the day Ann's first token expires.               *)
(***************************************************************************)
Ann == [id |-> 1, name |-> "Ann", email |-> AnnEmail,
        password |-> BcryptHash("secret1", BcryptCost, "s1")]

Bob == [id |-> 2, name |-> "Bob", email |-> BobEmail,
        password |-> BcryptHash("secret1", BcryptCost, "s2")]

AnnFirstToken == JwtSign(TokenPayload(Ann), JWT_SECRET, 0)

AnnToken == JwtSign(TokenPayload(Ann), JWT_SECRET, TokenTTL - 2)

BobToken == JwtSign(TokenPayload(Bob), JWT_SECRET, TokenTTL - 1)

PopulatedMoods ==
    [i \in 1..HistoryLimit |->
        [userId |-> Ann.id, mood |-> IF i % 2 = 0 THEN "happy" ELSE "sad",
         timestamp |-> IF 2 * i <= HistoryLimit THEN TokenTTL - 2
                       ELSE TokenTTL - 1]]
      \o <<[userId |-> Bob.id, mood |-> "happy", timestamp |-> TokenTTL - 1]>>

InitPopulated ==
    /\ users = <<Ann, Bob>>
    /\ moods = PopulatedMoods
    /\ contacts = <<[name |-> "Ann", email |-> AnnEmail, message |-> "hi",
                     createdAt |-> 3]>>
    /\ now = TokenTTL
    /\ issued = {AnnFirstToken, AnnToken, BobToken}
    /\ budget = MaxReqPopulated
    /\ nextOid = 3
    /\ req = [s \in Slots |-> IdleReq]
    /\ signedUp = <<AnnEmail, BobEmail>>
    /\ NoPage

\* Day 0, right after Ann's signup.
InitRegistered ==
    /\ users = <<Ann>>
    /\ moods = <<>>
    /\ contacts = <<>>
    /\ now = 0
    /\ issued = {AnnFirstToken}
    /\ budget = MaxReq
    /\ nextOid = 2
    /\ req = [s \in Slots |-> IdleReq]
    /\ signedUp = <<AnnEmail>>
    /\ NoPage

(***************************************************************************)
(* Workloads: the system under the requests of one part of the API.  A     *)
(* handler writes only its own collection (signup: users; mood/select:     *)
(* moods; contact: contacts), so the other parts of the API do not change  *)
(* what a workload's handlers read.                                        *)
(***************************************************************************)
NextSignup == SignupSteps \/ CloseSteps

SpecSignup == Init /\ [][NextSignup]_vars

NextLogin == SignupSteps \/ LoginSteps \/ CloseSteps

SpecLogin == Init /\ [][NextLogin]_vars

NextSession == LoginSteps \/ VerifySteps \/ CloseSteps \/ Tick

SpecSession == InitRegistered /\ [][NextSession]_vars

NextProtected == VerifySteps \/ MoodSteps \/ AdminSteps \/ CloseSteps

SpecProtected == InitPopulated /\ [][NextProtected]_vars

NextMood == MoodSteps \/ CloseSteps \/ Tick

SpecMood == InitPopulated /\ [][NextMood]_vars

NextContact == ContactSteps \/ CloseSteps \/ Tick

SpecContact == Init /\ [][NextContact]_vars

(***************************************************************************)
(* Properties.                                                             *)
(***************************************************************************)
Answered(s, route) == req[s].route = route /\ req[s].pc = "done"

StoredEmails == {users[i].email : i \in 1..Len(users)}

\* A step of a handler of the route (its start included).
StepOf(route) ==
    \E s \in Slots :
        /\ req'[s] # req[s]
        /\ req[s].route = route \/ req'[s].route = route

StoreUnchanged ==
    users' = users /\ moods' = moods /\ contacts' = contacts

SignupComplete(s) ==
    /\ Answered(s, "signup")
    /\ req[s].body.name # "" /\ req[s].body.email # <<>>
    /\ req[s].body.password # ""

DuplicateEmail == [status |-> 400, success |-> FALSE,
                   message |-> "Email already registered"]

\* C1: a signup (all three fields present) for an email that another
\* request has registered is answered 400 'Email already registered',
\* whether the handler's lookup or the unique index finds the duplicate.
C1_DuplicateSignupAnswersDuplicateEmail ==
    \A s \in Slots :
        (/\ SignupComplete(s)
         /\ req[s].res.status # 201
         /\ req[s].body.email \in StoredEmails)
            => req[s].res = DuplicateEmail

\* C2: no two stored users have the same email, and no email has had two
\* signups answered 201.
C2_EmailsUnique ==
    /\ \A i, j \in 1..Len(users) : users[i].email = users[j].email => i = j
    /\ \A i, j \in 1..Len(signedUp) : signedUp[i] = signedUp[j] => i = j

\* Two signups raced on one email: one is stored and answered 201, the
\* unique index has turned the other away.
C2_RaceLost ==
    \E s \in Slots :
        /\ SignupComplete(s) /\ req[s].res.status = 500
        /\ signedUp = <<req[s].body.email>> /\ Len(users) = 1

\* C3: a signup answered 201 carries a token that verifies and whose claims
\* id, email and name are those of the user record the request stored, and
\* of the user object of the response.
C3_TokenMatchesStoredUser ==
    \A s \in Slots :
        (SignupComplete(s) /\ req[s].res.status = 201) =>
            LET tok == req[s].res.token
                mine == {i \in 1..Len(users) :
                            users[i].email = req[s].body.email}
            IN  /\ ~JwtVerify(<<Jwt(tok)>>, JWT_SECRET, now).err
                /\ Cardinality(mine) = 1
                /\ \A i \in mine :
                      /\ users[i].name = req[s].body.name
                      /\ tok.id = users[i].id
                      /\ tok.email = users[i].email
                      /\ tok.name = users[i].name
                      /\ req[s].res.user = [id |-> users[i].id,
                                            name |-> users[i].name,
                                            email |-> users[i].email]

\* A signup is answered 201 while a signup for another email, already
\* stored, has not been answered yet.
C3_InterleavedSignups ==
    \E s, o \in Slots :
        /\ SignupComplete(s) /\ req[s].res.status = 201
        /\ req[o].route = "signup" /\ req[o].pc = "sign"
        /\ req[o].body.email # req[s].body.email

InvalidCredentials == [status |-> 400, success |-> FALSE,
                       message |-> "Invalid email or password"]

LoginComplete(s) ==
    /\ Answered(s, "login")
    /\ req[s].body.email # <<>> /\ req[s].body.password # ""

PasswordMatches(email, password) ==
    \E i \in 1..Len(users) :
        users[i].email = email /\ BcryptCompare(password, users[i].password)

C4_SameAnswer ==
    \A s \in Slots :
        LoginComplete(s) =>
            /\ req[s].body.email \notin StoredEmails
                  => req[s].res = InvalidCredentials
            /\ (/\ req[s].body.email \in StoredEmails
                /\ ~PasswordMatches(req[s].body.email, req[s].body.password))
                  => req[s].res = InvalidCredentials
            /\ req[s].res.status = 200
                  => /\ PasswordMatches(req[s].body.email, req[s].body.password)
                     /\ req[s].res.token \in issued

\* C4: a login (both fields present) with an unknown email and one with a
\* registered email and a wrong password get the same answer, 400 'Invalid
\* email or password' without a token; a token is issued only for a
\* registered email with the matching password; no login step changes the
\* store, and only a login answered 200 adds a token.
C4_LoginEnumerationResistant ==
    /\ []C4_SameAnswer
    /\ [][StepOf("login") =>
            /\ StoreUnchanged
            /\ issued' # issued =>
                  \E s \in Slots : req'[s].pc = "done" /\ req'[s].res.status = 200]_vars

\* A login with a registered email and a wrong password is refused.
C4_WrongPasswordRefused ==
    \E s \in Slots :
        /\ LoginComplete(s)
        /\ req[s].body.email \in StoredEmails
        /\ ~PasswordMatches(req[s].body.email, req[s].body.password)
        /\ req[s].res.status = 400

ProtectedRoutes ==
    {"verify", "moodSelect", "moodHistory", "adminContacts", "analytics"}

Unauthorized == {Fail(401, "Access token required"),
                 Fail(403, "Invalid or expired token")}

\* The request is, or has been, in its handler.
Reached(s) ==
    /\ req[s].route \in ProtectedRoutes
    /\ req[s].pc = "done" => req[s].res \notin Unauthorized

\* The identity the handler of the request works with.
Identity(s) ==
    IF req[s].route = "verify" THEN req[s].res.user ELSE req[s].user

BearerOf(tok) == Header(<<Word("Bearer"), SP, Jwt(tok)>>)

C5_State ==
    /\ \A tok \in issued : tok.exp = tok.iat + TokenTTL /\ tok.iat <= now
    /\ \A s \in Slots, tok \in issued :
          (req[s].route \in ProtectedRoutes /\ req[s].header = BearerOf(tok)) =>
              /\ req[s].at < tok.iat + TokenTTL
                    => Reached(s) /\ Identity(s) = JwtClaims(tok)
              /\ req[s].at > tok.iat + TokenTTL
                    => req[s].pc = "done"
                       /\ req[s].res = Fail(403, "Invalid or expired token")

\* C5: a token issued on day t is accepted by the middleware on every day
\* before t + 7 and refused with 403 on every day after; the tokens in
\* clients' hands never change, and a new one comes only from a login (or
\* signup) answered with it, expiring 7 days after that answer.
C5_TokenLifetime ==
    /\ []C5_State
    /\ [][/\ issued \subseteq issued'
          /\ \A tok \in issued' \ issued :
                /\ tok.iat = now /\ tok.exp = now + TokenTTL
                /\ StepOf("login") \/ StepOf("signup")
                /\ \E s \in Slots : req'[s].pc = "done" /\ req'[s].res.token = tok]_vars

\* Ann's first token is refused after its expiry, while she holds a newer
\* one from a login.
C5_ExpiredRefusedAfterRelogin ==
    \E s \in Slots :
        /\ Answered(s, "verify")
        /\ req[s].header = BearerOf(AnnFirstToken)
        /\ req[s].at > AnnFirstToken.exp
        /\ req[s].res.status = 403
        /\ \E tok \in issued : tok.iat > 0 /\ tok.exp > now

\* The request carries a token the server signed and that has not expired
\* when the request arrives.
CarriesValidToken(s, tok) ==
    /\ req[s].header.present
    /\ \E sch \in Schemes : req[s].header.text = <<Word(sch), SP, Jwt(tok)>>
    /\ JwtSignatureOk(tok, JWT_SECRET)
    /\ req[s].at < tok.exp

Presentable == issued \cup {Tampered(tok) : tok \in issued}
                 \cup {Forged(tok) : tok \in issued}

C6_State ==
    \A s \in Slots :
        req[s].route \in ProtectedRoutes =>
            /\ Reached(s) <=> \E tok \in Presentable : CarriesValidToken(s, tok)
            /\ Reached(s) =>
                  \A tok \in Presentable :
                      CarriesValidToken(s, tok) => Identity(s) = JwtClaims(tok)
            /\ (Answered(s, "adminContacts") /\ Reached(s) /\ req[s].res.status = 200) =>
                  /\ Len(req[s].res.contacts) = Len(contacts)
                  /\ \A i \in 1..Len(contacts) :
                        \E j \in 1..Len(contacts) : req[s].res.contacts[j] = contacts[i]

WellFormedBearer(header) ==
    /\ header.present
    /\ Len(header.text) = 3
    /\ header.text[1] = Word("Bearer") /\ header.text[2] = SP
    /\ header.text[3] # SP

\* C7: a request to a protected route whose Authorization header is
\* missing or is not 'Bearer <token>' is answered 401 'Access token
\* required', with no verification of a token.
C7_OnlyBearerHeaders ==
    \A s \in Slots :
        (req[s].route \in ProtectedRoutes /\ ~WellFormedBearer(req[s].header))
            => req[s].pc = "done" /\ req[s].res = Fail(401, "Access token required")

Count(q, x) == Cardinality({i \in 1..Len(q) : q[i] = x})

\* C8: mood/history returns at most 50 entries, all the caller's, newest
\* first, and they are the caller's most recent ones: every entry of the
\* caller that is left out is no newer than any entry returned.
C8_HistoryNewestFifty ==
    \A s \in Slots :
        (Answered(s, "moodHistory") /\ req[s].res.status = 200) =>
            LET h == req[s].res.history
                mine == SelectSeq(moods, LAMBDA m : m.userId = req[s].user.id)
            IN  /\ Len(h) <= HistoryLimit
                /\ Len(h) = IF Len(mine) < HistoryLimit THEN Len(mine)
                            ELSE HistoryLimit
                /\ \A k \in 1..Len(h) : h[k].userId = req[s].user.id
                /\ \A k \in 1..(Len(h) - 1) : h[k].timestamp >= h[k + 1].timestamp
                /\ \A k \in 1..Len(h) : Count(h, h[k]) <= Count(mine, h[k])
                /\ \A i \in 1..Len(mine) :
                      Count(h, mine[i]) < Count(mine, mine[i]) =>
                          \A k \in 1..Len(h) : h[k].timestamp >= mine[i].timestamp

\* Ann has one selection more than a page holds; the page starts with her
\* newest one, and another user has selections too.
C8_PageFullNewestKept ==
    \E s \in Slots :
        /\ Answered(s, "moodHistory") /\ req[s].res.status = 200
        /\ req[s].user.id = Ann.id
        /\ Len(SelectSeq(moods, LAMBDA m : m.userId = Ann.id)) > HistoryLimit
        /\ Len(req[s].res.history) = HistoryLimit
        /\ req[s].res.history[1].timestamp >= TokenTTL
        /\ \E i \in 1..Len(moods) : moods[i].userId # Ann.id

\* C9: POST /api/contact stores a message only if name, email and message
\* are present and the email matches the pattern; any other request is
\* answered 400.
C9_ContactEmailValidated ==
    /\ \A i \in 1..Len(contacts) : EmailRegexTest(contacts[i].email)
    /\ \A s \in Slots :
          (/\ Answered(s, "contact")
           /\ \/ req[s].body.name = "" \/ req[s].body.email = <<>>
              \/ req[s].body.message = ""
              \/ ~EmailRegexTest(req[s].body.email))
              => req[s].res.status = 400

\* C10: mood/select with a valid token answers 200 for a non-empty mood
\* and 400 for an empty or missing one.
C10_EmptyMoodIsValidationError ==
    \A s \in Slots :
        (Answered(s, "moodSelect") /\ Reached(s)) =>
            IF req[s].body.mood = "" THEN req[s].res.status = 400
            ELSE req[s].res.status = 200

(***************************************************************************)
(* The end-to-end workload: accounts and moods, from the empty database    *)
(* and from one where Ann and Bob have signed up and hold their tokens.    *)
(***************************************************************************)
InitTwoUsers ==
    /\ users = <<Ann, Bob>>
    /\ moods = <<>>
    /\ contacts = <<>>
    /\ now = TokenTTL
    /\ issued = {AnnToken, BobToken}
    /\ budget = MaxReqPopulated
    /\ nextOid = 3
    /\ req = [s \in Slots |-> IdleReq]
    /\ signedUp = <<AnnEmail, BobEmail>>
    /\ NoPage

\* The header the page's apiRequest sends: none, or 'Bearer ' and a token
\* the page was given.
PageHeaders == {NoHeader} \cup {Header(<<Word("Bearer"), SP, Jwt(tok)>>) : tok \in issued}

PageMoodSteps ==
    \/ \E s \in Slots, header \in PageHeaders, mood \in MoodInputs :
         MoodSelectStart(s, header, mood)
    \/ \E s \in Slots : MoodSelectSave(s)
    \/ \E s \in Slots, header \in PageHeaders : MoodHistoryStart(s, header)
    \/ \E s \in Slots : MoodHistoryFind(s)

NextEndToEnd == SignupSteps \/ LoginSteps \/ PageMoodSteps \/ CloseSteps

SpecEndToEnd == (Init \/ InitTwoUsers) /\ [][NextEndToEnd]_vars

SignedUpEmails == {signedUp[i] : i \in 1..Len(signedUp)}

StoredId(email) == (FindOneUser(email)).user.id

OwnMoods(userId) == SelectSeq(moods, LAMBDA m : m.userId = userId)

C11_State ==
    \A s \in Slots :
        /\ (SignupComplete(s) /\ req[s].res.status = 201) =>
              /\ req[s].body.email \in StoredEmails
              /\ req[s].res.user.id = StoredId(req[s].body.email)
        /\ (Answered(s, "moodSelect") /\ req[s].res.status = 200) =>
              /\ moods # <<>>
              /\ moods[Len(moods)].userId = req[s].user.id
              /\ moods[Len(moods)].mood = req[s].body.mood
        /\ (/\ Answered(s, "moodHistory") /\ req[s].res.status = 200
            /\ Len(OwnMoods(req[s].user.id)) = 1) =>
              req[s].res.history = OwnMoods(req[s].user.id)

\* The step answers a login that carries both fields.
LoginAnswer(s) ==
    /\ req[s].pc # "done"
    /\ req'[s].route = "login" /\ req'[s].pc = "done"
    /\ req'[s].body.email # <<>> /\ req'[s].body.password # ""

InitOneUser ==
    /\ users = <<Ann>>
    /\ moods = <<[userId |-> Ann.id, mood |-> "happy", timestamp |-> TokenTTL - 2]>>
    /\ contacts = <<[name |-> "Ann", email |-> AnnEmail, message |-> "hi",
                     createdAt |-> TokenTTL - 2]>>
    /\ now = TokenTTL
    /\ issued = {AnnFirstToken, AnnToken}
    /\ budget = MaxReq
    /\ nextOid = 2
    /\ req = [s \in Slots |-> IdleReq]
    /\ signedUp = <<AnnEmail>>
    /\ NoPage

PageVerifySteps ==
    \E s \in Slots, header \in PageHeaders : VerifyRequest(s, header)

PageAdminSteps ==
    \/ \E s \in Slots, header \in PageHeaders : AdminContactsStart(s, header)
    \/ \E s \in Slots : AdminContactsFind(s)
    \/ \E s \in Slots, header \in PageHeaders : AnalyticsStart(s, header)
    \/ \E s \in Slots : AnalyticsCountUsers(s)
    \/ \E s \in Slots : AnalyticsCountMoods(s)
    \/ \E s \in Slots : AnalyticsCountContacts(s)
    \/ \E s \in Slots : AnalyticsAggregate(s)

NextAllRoutes ==
    \/ SignupSteps
    \/ LoginSteps
    \/ PageVerifySteps
    \/ PageMoodSteps
    \/ ContactSteps
    \/ PageAdminSteps
    \/ HealthSteps
    \/ CloseSteps

SpecAllRoutes == InitOneUser /\ [][NextAllRoutes]_vars

\* The field names of a response body, with those of the user object and of
\* the token's claims when it has them.
ResponseFields(res) ==
    DOMAIN res
      \cup (IF "user" \in DOMAIN res THEN DOMAIN res.user ELSE {})
      \cup (IF "token" \in DOMAIN res
            THEN DOMAIN res.token \cup DOMAIN res.token.sig.over ELSE {})

PasswordFields == {"password", "hash", "passwordHash"}

C12_StoredHashed ==
    \A i \in 1..Len(users) :
        /\ users[i].password.alg = "bcrypt"
        /\ users[i].password.cost = BcryptCost
        /\ users[i].password.of \in Passwords

C12_NothingLeaves ==
    /\ \A s \in Slots :
          req[s].pc = "done" => ResponseFields(req[s].res) \cap PasswordFields = {}
    /\ \A tok \in issued :
          (DOMAIN tok \cup DOMAIN tok.sig.over) \cap PasswordFields = {}

\* C12: every stored User.password is the bcrypt hash of a submitted password,
\* the user a signup saves carries the hash of that request's password, and no
\* response body, user object in it, or claim of an issued token has a
\* password or password-hash field.
C12_PasswordNeverLeaves ==
    /\ [](C12_StoredHashed /\ C12_NothingLeaves)
    /\ [][users' # users =>
            /\ Len(users') = Len(users) + 1
            /\ \E s \in Slots :
                 /\ Running(s, "signup", "save")
                 /\ users'[Len(users')].password
                      = BcryptHash(req[s].body.password, BcryptCost,
                                   users'[Len(users')].password.salt)]_vars

\* A signup has stored its user and a login of that user has been answered 200.
C12_SignupThenLoginAnswered ==
    /\ Len(users) = 2
    /\ \E s \in Slots :
         /\ LoginComplete(s) /\ req[s].res.status = 200
         /\ req[s].res.user.id = users[2].id

IsPrefix(q, r) == Len(q) <= Len(r) /\ SubSeq(r, 1, Len(q)) = q

ReadRoutes ==
    {"login", "verify", "moodHistory", "adminContacts", "analytics", "health"}

\* The answer of an error response is being written.
ErrorAnswer(s) ==
    /\ req[s].pc # "done" /\ req'[s].pc = "done"
    /\ ~req'[s].res.success

\* The signup in s has had its user saved.
SignupSaved(s) ==
    /\ req[s].route = "signup" /\ "user" \in DOMAIN req[s]
    /\ \E i \in 1..Len(users) : users[i] = req[s].user

C13_Frame ==
    /\ IsPrefix(users, users') /\ IsPrefix(moods, moods')
    /\ IsPrefix(contacts, contacts')
    /\ (\E route \in ReadRoutes : StepOf(route)) => StoreUnchanged
    /\ \A s \in Slots : ErrorAnswer(s) => StoreUnchanged

ApiRoutes == {"signup", "login", "contact"} \cup ProtectedRoutes \cup {"health"}

BodyParserReject(s, route) ==
    /\ Accepts(s)
    /\ budget' = budget - 1
    /\ req' = [req EXCEPT ![s] =
           [pc |-> "done", route |-> route,
            res |-> [status |-> 400, html |-> "SyntaxError"]]]
    /\ UNCHANGED <<users, moods, contacts, now, issued, nextOid, signedUp, client>>

BodyParserSteps == \E s \in Slots, route \in ApiRoutes : BodyParserReject(s, route)

NextWire == NextAllRoutes \/ BodyParserSteps

SpecWire == InitOneUser /\ [][NextWire]_vars

SuccessStatus(route) == IF route = "signup" THEN 201 ELSE 200

\* C14: every response carries a boolean success flag, true exactly when the
\* status is the route's success status (201 for signup, 200 otherwise), and
\* every failure response is just {success: false, message}.
C14_SuccessFlagOnEveryResponse ==
    \A s \in Slots :
        req[s].pc = "done" =>
            /\ "success" \in DOMAIN req[s].res
            /\ req[s].res.success \in BOOLEAN
            /\ req[s].res.success <=> req[s].res.status = SuccessStatus(req[s].route)
            /\ req[s].res.status \in {200, 201, 400, 401, 403, 500}
            /\ ~req[s].res.success =>
                  DOMAIN req[s].res = {"status", "success", "message"}

(***************************************************************************)
(* Signup under failures of its environment: jwt.sign throws, or the store *)
(* rejects user.save() without applying it.  Either lands in the handler's *)
(* catch, which only answers 500.                                          *)
(***************************************************************************)
SignupSignThrowsRollback(s) ==
    /\ Running(s, "signup", "sign")
    /\ users' = SelectSeq(users, LAMBDA u : u # req[s].user)
    /\ req' = [req EXCEPT ![s] =
           Done(req[s], Fail(500, "Server error. Please try again."))]
    /\ UNCHANGED <<moods, contacts, now, issued, budget, nextOid, signedUp, client>>

SignupSignThrows(s) ==
    /\ Running(s, "signup", "sign")
    /\ req' = [req EXCEPT ![s] =
           Done(req[s], Fail(500, "Server error. Please try again."))]
    /\ UNCHANGED <<users, moods, contacts, now, issued, budget, nextOid, signedUp, client>>

SignupSaveRejects(s) ==
    /\ Running(s, "signup", "save")
    /\ req' = [req EXCEPT ![s] =
           Done(req[s], Fail(500, "Server error. Please try again."))]
    /\ UNCHANGED <<users, moods, contacts, now, issued, budget, nextOid, signedUp, client>>

SignupFaultSteps ==
    \/ \E s \in Slots : SignupSignThrows(s)
    \/ \E s \in Slots : SignupSaveRejects(s)

NextSignupFaults == SignupSteps \/ SignupFaultSteps \/ LoginSteps \/ CloseSteps

SpecSignupFaults == Init /\ [][NextSignupFaults]_vars

ServerError == Fail(500, "Server error. Please try again.")

\* The signup in s leaves position pc with an answer.
SignupAnswerFrom(s, pc) ==
    /\ req[s].route = "signup" /\ req[s].pc = pc
    /\ req'[s].pc = "done"

\* Stored users whose signup was not answered 201.
Orphans == StoredEmails \ SignedUpEmails

C15_Steps ==
    /\ IsPrefix(users, users')
    /\ \A s \in Slots :
        \* token issuance fails after the save: 500, and the row stays
        /\ (SignupAnswerFrom(s, "sign") /\ req'[s].res.status # 201) =>
              /\ req'[s].res = ServerError
              /\ users' = users
              /\ \E i \in 1..Len(users') : users'[i] = req[s].user
        \* the save fails: 500, and no row of this request
        /\ SignupAnswerFrom(s, "save") =>
              /\ req'[s].res = ServerError
              /\ users' = users
              /\ \A i \in 1..Len(users') : users'[i] # req[s].user
        \* a signup that looks up a stored email is refused as a duplicate
        /\ (/\ req[s].route = "signup" /\ req[s].pc = "findOne"
            /\ req'[s] # req[s]
            /\ req[s].body.email \in StoredEmails) =>
              /\ req'[s].pc = "done" /\ req'[s].res = DuplicateEmail
        \* a login that looks up a stored email goes on to compare, and with
        \* the password of the stored hash it is answered 200 with a token
        /\ (/\ req[s].route = "login" /\ req[s].pc = "findOne"
            /\ req'[s] # req[s]
            /\ req[s].body.email \in StoredEmails) =>
              req'[s].pc = "compare"
        /\ (/\ req[s].route = "login" /\ req[s].pc = "compare"
            /\ req'[s] # req[s]
            /\ PasswordMatches(req[s].body.email, req[s].body.password)) =>
              /\ req'[s].pc = "done" /\ req'[s].res.status = 200
              /\ req'[s].res.token \in issued'
              /\ req'[s].res.token.id = StoredId(req[s].body.email)

\* C15: a signup whose token issuance fails after the save answers 500 and
\* leaves its user row in the store, for good; every signup that then looks
\* the email up is refused with DuplicateEmail, and a login with the email and
\* the password of the stored hash is answered 200 with a token; a signup
\* whose save fails answers 500 and leaves no row of its own.  The row a
\* failed signup leaves carries the hash of the password it was sent.
C15_SignupNotAtomic ==
    /\ [][C15_Steps]_vars
    /\ [](\A s \in Slots :
            (Answered(s, "signup") /\ SignupSaved(s)) =>
                PasswordMatches(req[s].body.email, req[s].body.password))

\* The row of a signup that was answered 500 is in the store, and a login
\* with its email has been answered 200.
C15_OrphanLogsIn ==
    \E s \in Slots :
        /\ LoginComplete(s) /\ req[s].res.status = 200
        /\ req[s].body.email \in Orphans
        /\ \A t \in Slots : req[t].route # "signup"

RECURSIVE SumCounts(_)
SumCounts(stats) ==
    IF stats = {} THEN 0
    ELSE LET g == CHOOSE x \in stats : TRUE
         IN  g.count + SumCounts(stats \ {g})

\* C16: in every analytics response totalMoodSelections is the sum of the
\* counts of its moodStats distribution.
C16_AnalyticsConsistent ==
    \A s \in Slots :
        (Answered(s, "analytics") /\ req[s].res.status = 200) =>
            req[s].res.analytics.totalMoodSelections
                = SumCounts(req[s].res.analytics.moodStats)

(***************************************************************************)
(* The page.  Its script runs one handler at a time; a handler that awaits *)
(* apiRequest gives way until the response (or the failure of fetch)       *)
(* arrives.  The API is the page's environment here: a call is answered in *)
(* one step, with the answer the handlers above give.                      *)
(***************************************************************************)
ClientEmails == Emails \cup {NoAtEmail}
ClientPasswords == Passwords \cup {"letmein"}

\* password.length
PasswordLength(password) ==
    CASE password = "" -> 0
      [] password = "wrong" -> 5
      [] password = "secret1" -> 7
      [] password = "letmein" -> 7

\* apiRequest: the Authorization header is built when the call is made.
ApiHeader(token) ==
    IF token = Null THEN NoHeader
    ELSE Header(<<Word("Bearer"), SP, Jwt(token)>>)

\* response.ok
ResponseOk(res) == res.status \in {200, 201}

\* GET /api/auth/verify, as answered at time t
VerifyAnswer(header, t) ==
    LET auth == AuthenticateToken(header, t)
    IN  IF auth.next
        THEN [status |-> 200, success |-> TRUE, user |-> auth.user]
        ELSE auth.res

\* POST /api/auth/login, as answered at time t
LoginAnswerAt(email, password, t) ==
    LET found == FindOneUser(email)
    IN  IF FalsySeq(email) \/ Falsy(password)
        THEN Fail(400, "Please provide email and password")
        ELSE IF ~found.found THEN UnknownEmailResponse
        ELSE IF ~BcryptCompare(password, found.user.password)
        THEN WrongPasswordResponse
        ELSE AuthOk(200, "Welcome back!",
                    JwtSign(TokenPayload(found.user), JWT_SECRET, t), found.user)

\* The page was opened with, in localStorage, no token, a token that has
\* expired, or one that is still good.  With a token, the DOMContentLoaded
\* handler has called verifyToken, which awaits its apiRequest.
StoredAtLoad == {Null, AnnFirstToken, AnnToken}

InitClient ==
    /\ users = <<Ann>>
    /\ moods = <<>>
    /\ contacts = <<>>
    /\ now = TokenTTL
    /\ issued = {AnnFirstToken, AnnToken}
    /\ budget = MaxReq
    /\ nextOid = 2
    /\ req = [s \in Slots |-> IdleReq]
    /\ signedUp = <<AnnEmail>>
    /\ localStorage \in StoredAtLoad
    /\ authToken = localStorage
    /\ currentUser = Null
    /\ navbar = FALSE
    /\ calls = IF authToken = Null THEN {}
               ELSE {[fn |-> "verifyToken", id |-> 0,
                      header |-> ApiHeader(authToken)]}

\* handleAuth up to its await: validation, then the call.
HandleAuth(isSignup, name, email, password) ==
    /\ budget > 0
    /\ IF \/ FalsySeq(email) \/ Falsy(password)
          \/ isSignup /\ Falsy(name)
          \/ ~EmailRegexTest(email)
          \/ PasswordLength(password) < 6
       THEN UNCHANGED <<budget, calls>>
       ELSE /\ budget' = budget - 1
            /\ calls' = calls \cup
                 {[fn |-> "handleAuth", id |-> budget,
                   header |-> ApiHeader(authToken), isSignup |-> isSignup,
                   body |-> [name |-> name, email |-> email,
                             password |-> password]]}
    /\ UNCHANGED <<users, moods, contacts, now, issued, nextOid, req, signedUp,
                   authToken, currentUser, localStorage, navbar>>

\* handleAuth after its await, on a response of the API.
HandleAuthResponse(c, res) ==
    /\ calls' = calls \ {c}
    /\ IF ResponseOk(res) /\ res.success
       THEN /\ authToken' = res.token
            /\ localStorage' = res.token
            /\ currentUser' = res.user
            /\ navbar' = TRUE
       ELSE UNCHANGED <<authToken, localStorage, currentUser, navbar>>

\* The login call is answered.
HandleAuthLogin(c) ==
    /\ c \in calls /\ c.fn = "handleAuth" /\ ~c.isSignup
    /\ LET res == LoginAnswerAt(c.body.email, c.body.password, now)
       IN  /\ HandleAuthResponse(c, res)
           /\ issued' = IF res.success THEN issued \cup {res.token} ELSE issued
    /\ UNCHANGED <<users, moods, contacts, now, budget, nextOid, req, signedUp>>

\* The signup call is answered: a new user is stored, unless the email is
\* taken.
HandleAuthSignup(c) ==
    /\ c \in calls /\ c.fn = "handleAuth" /\ c.isSignup
    /\ IF FindOneUser(c.body.email).found
       THEN /\ HandleAuthResponse(c, Fail(400, "Email already registered"))
            /\ UNCHANGED <<users, issued, nextOid, signedUp>>
       ELSE \E salt \in Salts :
            LET user == [id |-> nextOid, name |-> c.body.name,
                         email |-> c.body.email,
                         password |-> BcryptHash(c.body.password,
                                                 BcryptCost, salt)]
                token == JwtSign(TokenPayload(user), JWT_SECRET, now)
            IN  /\ users' = Append(users, user)
                /\ nextOid' = nextOid + 1
                /\ issued' = issued \cup {token}
                /\ signedUp' = Append(signedUp, user.email)
                /\ HandleAuthResponse(c,
                      AuthOk(201, "Account created successfully!", token, user))
    /\ UNCHANGED <<moods, contacts, now, budget, req>>

\* fetch rejects (the API cannot be reached): handleAuth's catch shows a toast.
HandleAuthFetchFails(c) ==
    /\ c \in calls /\ c.fn = "handleAuth"
    /\ calls' = calls \ {c}
    /\ UNCHANGED <<users, moods, contacts, now, issued, budget, nextOid, req,
                   signedUp, authToken, currentUser, localStorage, navbar>>

\* verifyToken's catch
VerifyTokenCatch ==
    /\ localStorage' = Null
    /\ authToken' = Null
    /\ currentUser' = Null
    /\ navbar' = navbar

\* verifyToken after its await, on a response of the API.
VerifyTokenResponse(c) ==
    /\ c \in calls /\ c.fn = "verifyToken"
    /\ calls' = calls \ {c}
    /\ LET res == VerifyAnswer(c.header, now)
       IN  IF ResponseOk(res)
           THEN /\ currentUser' = res.user
                /\ navbar' = TRUE
                /\ UNCHANGED <<authToken, localStorage>>
           ELSE VerifyTokenCatch
    /\ UNCHANGED <<users, moods, contacts, now, issued, budget, nextOid, req,
                   signedUp>>

\* fetch rejects under verifyToken.
VerifyTokenFetchFails(c) ==
    /\ c \in calls /\ c.fn = "verifyToken"
    /\ calls' = calls \ {c}
    /\ VerifyTokenCatch
    /\ UNCHANGED <<users, moods, contacts, now, issued, budget, nextOid, req,
                   signedUp>>

\* The logout button, in the navbar.
LogoutUser ==
    /\ navbar
    /\ localStorage' = Null
    /\ authToken' = Null
    /\ currentUser' = Null
    /\ navbar' = FALSE
    /\ UNCHANGED <<users, moods, contacts, now, issued, budget, nextOid, req,
                   signedUp, calls>>

NextClient ==
    \/ \E isSignup \in BOOLEAN, name \in Names, email \in ClientEmails,
          password \in ClientPasswords :
             HandleAuth(isSignup, name, email, password)
    \/ \E c \in calls : HandleAuthLogin(c)
    \/ \E c \in calls : HandleAuthSignup(c)
    \/ \E c \in calls : HandleAuthFetchFails(c)
    \/ \E c \in calls : VerifyTokenResponse(c)
    \/ \E c \in calls : VerifyTokenFetchFails(c)
    \/ LogoutUser

SpecClient == InitClient /\ [][NextClient]_vars

\* The step clears the stored token.
TokenCleared == localStorage # Null /\ localStorage' = Null

\* The step is the failure of a verification of the stored token.
StoredTokenRefused ==
    \E c \in calls :
        /\ c.fn = "verifyToken" /\ c.header = ApiHeader(localStorage)
        /\ VerifyTokenResponse(c) \/ VerifyTokenFetchFails(c)

\* C17: currentUser is non-null only if authToken is non-null and is the
\* token in localStorage, and the stored token is cleared only by logoutUser
\* or by the failure of a verification of that very token.
C17_ClientSessionConsistent ==
    /\ [](currentUser # Null =>
            authToken # Null /\ authToken = localStorage)
    /\ [][TokenCleared => LogoutUser \/ StoredTokenRefused]_vars
====
